---- MODULE Spec2Model ----
(***************************************************************************)
(* Model of the ParserCombinator library (src/src/lib.rs, input.rs,        *)
(* sequence.rs).  The only mutable state of the library is the cursor      *)
(* InputRef { input, offset }.  Parser values are immutable trees; their   *)
(* `go` methods are functions of (parser, input, offset) which return a    *)
(* ParseResult and leave the cursor at some offset.                        *)
(*                                                                         *)
(* The input models `&str`: a sequence of chars, with byte offsets.  The   *)
(* char "u" stands for a two-byte scalar value and "a" for a one-byte one, *)
(* so that token counts and byte offsets differ.                           *)
(***************************************************************************)
EXTENDS Integers, Sequences, FiniteSets, TLC

\* ---------------------------------------------------------------- bounds
MaxInput == 3      \* tokens in the source
MaxLit   == 2      \* tokens in a literal given to exact
MaxCount == 2      \* largest number given to at_least / at_most / exactly
MaxCands == 2      \* candidates in the list given to one_of

Tokens == {"a", "u"}

\* Option::None for tokens (tokens are strings)
None == "None"

\* ------------------------------------------------- the record of an attempt
\* (TLC compares records field by field in the order the field names first
\* appear in the module: kind, tag and parser come first so that values of
\* different Rust types are told apart before their contents are compared.)
\* no parser, no ParseResult, nothing returned by next / peek
NoParser == [kind |-> "none"]
NoRes    == [tag |-> "none", out |-> "none"]
NoRet    == <<0, "none">>

\* one call of go: the parser value, the offset the cursor had at entry, the
\* ParseResult returned and the attempts made on the direct sub-parsers
Attempted(p, e, r, l) == [parser |-> p, entry |-> e, res |-> r, log |-> l]

\* ------------------------------------------------------------- input.rs
\* char::len_utf8
len_utf8(c) == IF c = "u" THEN 2 ELSE 1

RECURSIVE ByteLen(_)
\* str::len : length in bytes of a run of chars
ByteLen(s) == IF s = <<>> THEN 0 ELSE len_utf8(Head(s)) + ByteLen(Tail(s))

\* Input::start
InputStart(src) == 0

\* Input::next for &str stepping one byte further when no char is left
InputNext_PastEnd(src, off) ==
    LET idx == {i \in 1..Len(src) : ByteLen(SubSeq(src, 1, i - 1)) = off}
    IN  IF idx # {}
        THEN LET c == src[CHOOSE i \in idx : TRUE]
             IN  <<off + len_utf8(c), c>>
        ELSE <<off + 1, None>>

\* Input::next for &str : self[offset..].chars().next().  Offsets handed to it
\* are char boundaries (every offset comes from InputStart or InputNext).
InputNext(src, off) ==
    LET idx == {i \in 1..Len(src) : ByteLen(SubSeq(src, 1, i - 1)) = off}
    IN  IF idx # {}
        THEN LET c == src[CHOOSE i \in idx : TRUE]
             IN  <<off + len_utf8(c), c>>
        ELSE <<off, None>>

\* Input::slice : &self[start..end]
InputSlice(src, start, end) ==
    LET idx == {i \in 1..Len(src) :
                   /\ start <= ByteLen(SubSeq(src, 1, i - 1))
                   /\ ByteLen(SubSeq(src, 1, i - 1)) < end}
    IN  IF idx = {} THEN <<>>
        ELSE LET lo == CHOOSE i \in idx : \A j \in idx : i <= j
             IN  [k \in 1..Cardinality(idx) |-> src[lo + k - 1]]

\* InputRef::peek
peek(src, off) == InputNext(src, off)

\* InputRef::peek_token
peek_token(src, off) == peek(src, off)[2]

\* InputRef::next : the offset the cursor holds afterwards, and the token
next(src, off) == InputNext(src, off)

\* InputRef::next_offset
next_offset(src, off) == next(src, off)[1]

\* ---------------------------------------------------------- ParseResult
Ok(o)    == [tag |-> "Ok", out |-> o]
Err      == [tag |-> "Err", out |-> "SyntaxError"]
\* The attempt does not return: a loop of usize::MAX iterations.
Diverges == [tag |-> "Diverges", out |-> "never returns"]

IsOk(r)  == r.res.tag = "Ok"
IsErr(r) == r.res.tag = "Err"

\* What an attempt yields: the result, the offset the cursor is left at, and
\* the attempts the combinator made on its direct sub-parsers, in order.
Ret(res, off, log) == [res |-> res, off |-> off, log |-> log]

\* One entry of the log.
Ev(who, from, r) == [who |-> who, from |-> from, tag |-> r.res.tag, to |-> r.off]

\* ---------------------------------------------------------- primitives
RECURSIVE find_map(_, _, _)
\* The closure of Exact::go / OneOf::go driven by Iterator::find_map: walk the
\* literal, advance on every token equal to the peeked one, stop at the first
\* that differs.  found <=> find_map returned Some(()).
find_map(seq, src, off) ==
    IF seq = <<>> THEN [found |-> FALSE, off |-> off]
    ELSE IF Head(seq) = peek_token(src, off)
         THEN find_map(Tail(seq), src, next_offset(src, off))
         ELSE [found |-> TRUE, off |-> off]

\* Exact::go restoring the entry offset when the literal does not match
ExactGo_Restore(p, src, off) ==
    LET start == off
        m == find_map(p.seq, src, off)
    IN  IF m.found
        THEN Ret(Err, start, <<>>)
        ELSE Ret(Ok(InputSlice(src, start, m.off)), m.off, <<>>)

\* Exact::go slicing from the start of the source instead of the entry offset
ExactGo_SliceFromStart(p, src, off) ==
    LET m == find_map(p.seq, src, off)
    IN  IF m.found
        THEN Ret(Err, m.off, <<>>)
        ELSE Ret(Ok(InputSlice(src, InputStart(src), m.off)), m.off, <<>>)

\* Exact::go
ExactGo(p, src, off) ==
    LET start == off
        m == find_map(p.seq, src, off)
    IN  IF m.found
        THEN Ret(Err, m.off, <<>>)
        ELSE Ret(Ok(InputSlice(src, start, m.off)), m.off, <<>>)

\* End::go taking the token it finds (next_token instead of peek_token)
EndGo_Consume(p, src, off) ==
    IF peek_token(src, off) # None
    THEN Ret(Err, next_offset(src, off), <<>>)
    ELSE Ret(Ok("unit"), off, <<>>)

\* End::go
EndGo(p, src, off) ==
    IF peek_token(src, off) # None
    THEN Ret(Err, off, <<>>)
    ELSE Ret(Ok("unit"), off, <<>>)

\* Any::go returning the peeked token without advancing the cursor
AnyGo_Peek(p, src, off) ==
    IF peek_token(src, off) # None
    THEN Ret(Ok(peek_token(src, off)), off, <<>>)
    ELSE Ret(Err, off, <<>>)

\* Any::go
AnyGo(p, src, off) ==
    IF peek_token(src, off) # None
    THEN Ret(Ok(next(src, off)[2]), next_offset(src, off), <<>>)
    ELSE Ret(Err, off, <<>>)

RECURSIVE OneOfLoop_NoRewind(_, _, _, _)
\* the loop of OneOf::go without the rewind after a failed candidate
OneOfLoop_NoRewind(container, src, start_offset, log) ==
    IF container = <<>> THEN Ret(Err, start_offset, log)
    ELSE LET m == find_map(Head(container), src, start_offset)
         IN  IF m.found
             THEN OneOfLoop_NoRewind(Tail(container), src, m.off,
                            Append(log, [who |-> "seq", from |-> start_offset,
                                         tag |-> "Err", to |-> m.off]))
             ELSE Ret(Ok(InputSlice(src, start_offset, m.off)), m.off,
                      Append(log, [who |-> "seq", from |-> start_offset,
                                   tag |-> "Ok", to |-> m.off]))

RECURSIVE OneOfLoop(_, _, _, _)
\* the `for seq in self.container.iter()` loop of OneOf::go
OneOfLoop(container, src, start_offset, log) ==
    IF container = <<>> THEN Ret(Err, start_offset, log)
    ELSE LET m == find_map(Head(container), src, start_offset)
         IN  IF m.found
             THEN \* input_ref.rewind(start_offset)
                  OneOfLoop(Tail(container), src, start_offset,
                            Append(log, [who |-> "seq", from |-> start_offset,
                                         tag |-> "Err", to |-> m.off]))
             ELSE Ret(Ok(InputSlice(src, start_offset, m.off)), m.off,
                      Append(log, [who |-> "seq", from |-> start_offset,
                                   tag |-> "Ok", to |-> m.off]))

\* OneOf::go
OneOfGo(p, src, off) == OneOfLoop(p.container, src, off, <<>>)

\* --------------------------------------------------------- sequence.rs
\* Container::default for Vec / String, HashSet and ()
ContainerDefault(c) ==
    CASE c = "Vec"     -> <<>>
      [] c = "HashSet" -> {}
      [] c = "Unit"    -> "unit"

\* Container::push with Vec inserting at the front
ContainerPush_Front(c, ret, item) ==
    CASE c = "Vec"     -> <<item>> \o ret
      [] c = "HashSet" -> ret \cup {item}
      [] c = "Unit"    -> ret

\* Container::push
ContainerPush(c, ret, item) ==
    CASE c = "Vec"     -> Append(ret, item)
      [] c = "HashSet" -> ret \cup {item}
      [] c = "Unit"    -> ret

\* --------------------------------------------------------- RepeatedRange
NoneUsize   == [some |-> FALSE, val |-> 0]
SomeUsize(n) == [some |-> TRUE, val |-> n]

AtLeast(n)    == [kind |-> "AtLeast", a |-> n, b |-> n]
Between(n, m) == [kind |-> "Between", a |-> n, b |-> m]
Exactly(n)    == [kind |-> "Exactly", a |-> n, b |-> n]

\* RepeatedRange::start
RangeStart(range) == range.a

\* RepeatedRange::end
RangeEnd(range) ==
    IF range.kind = "AtLeast" THEN NoneUsize ELSE SomeUsize(range.b)

\* ---------------------------------------------------- closures of the tests
\* the predicates handed to filter (on chars, or on slices)
filter_func(f, out) ==
    CASE f = "is_a"     -> out = "a"
      [] f = "is_char"  -> out \in Tokens
      [] f = "is_ascii" -> len_utf8(out) = 1
      [] f = "nonempty" -> out # <<>>
      [] f = "never"    -> FALSE

\* the functions handed to map (on slices)
mapper(f, out) ==
    CASE f = "len" -> Len(out)
      [] f = "dup" -> out \o out

\* ----------------------------------------------------------- combinators
RECURSIVE Go(_, _, _)

\* Or::go without the rewind before the second branch
OrGo_NoRewind(p, src, off) ==
    LET r1 == Go(p.first_parser, src, off)
        e1 == Ev("first_parser", off, r1)
    IN  IF IsOk(r1) THEN Ret(r1.res, r1.off, <<e1>>)
        ELSE IF ~IsErr(r1) THEN Ret(Diverges, r1.off, <<e1>>)
        ELSE LET r2 == Go(p.second_parser, src, r1.off)
             IN  Ret(r2.res, r2.off, <<e1, Ev("second_parser", r1.off, r2)>>)

\* Or::go
OrGo(p, src, off) ==
    LET prev_state == off
        r1 == Go(p.first_parser, src, off)
        e1 == Ev("first_parser", off, r1)
    IN  IF IsOk(r1) THEN Ret(r1.res, r1.off, <<e1>>)
        ELSE IF ~IsErr(r1) THEN Ret(Diverges, r1.off, <<e1>>)
        ELSE \* input_ref.rewind(prev_state)
             LET r2 == Go(p.second_parser, src, prev_state)
             IN  Ret(r2.res, r2.off, <<e1, Ev("second_parser", prev_state, r2)>>)

\* Padded::go propagating the failure of the leading pad (`?` on it)
PaddedGo_PadFails(p, src, off) ==
    LET pad1 == Go(p.padded_by, src, off)
        e1   == Ev("padded_by", off, pad1)
    IN  IF ~IsOk(pad1) THEN Ret(pad1.res, pad1.off, <<e1>>)
        ELSE
        LET r  == Go(p.parser, src, pad1.off)
            e2 == Ev("parser", pad1.off, r)
        IN  IF ~IsOk(r) THEN Ret(r.res, r.off, <<e1, e2>>)
            ELSE
            LET pad2 == Go(p.padded_by, src, r.off)
                e3   == Ev("padded_by", r.off, pad2)
            IN  IF pad2.res.tag = "Diverges"
                THEN Ret(Diverges, pad2.off, <<e1, e2, e3>>)
                ELSE Ret(r.res, pad2.off, <<e1, e2, e3>>)

\* Padded::go
PaddedGo(p, src, off) ==
    LET pad1 == Go(p.padded_by, src, off)
        e1   == Ev("padded_by", off, pad1)
    IN  IF pad1.res.tag = "Diverges" THEN Ret(Diverges, pad1.off, <<e1>>)
        ELSE
        LET r  == Go(p.parser, src, pad1.off)
            e2 == Ev("parser", pad1.off, r)
        IN  IF ~IsOk(r) THEN Ret(r.res, r.off, <<e1, e2>>)
            ELSE
            LET pad2 == Go(p.padded_by, src, r.off)
                e3   == Ev("padded_by", r.off, pad2)
            IN  IF pad2.res.tag = "Diverges"
                THEN Ret(Diverges, pad2.off, <<e1, e2, e3>>)
                ELSE Ret(r.res, pad2.off, <<e1, e2, e3>>)

\* Filter::go without the rewind on rejection
FilterGo_NoRewind(p, src, off) ==
    LET r == Go(p.parser, src, off)
        e == Ev("parser", off, r)
    IN  IF ~IsOk(r) THEN Ret(r.res, r.off, <<e>>)
        ELSE IF filter_func(p.filter_func, r.res.out)
             THEN Ret(r.res, r.off, <<e>>)
             ELSE Ret(Err, r.off, <<e>>)

\* Filter::go rewinding to the start of the source on rejection
FilterGo_RewindToStart(p, src, off) ==
    LET r == Go(p.parser, src, off)
        e == Ev("parser", off, r)
    IN  IF ~IsOk(r) THEN Ret(r.res, r.off, <<e>>)
        ELSE IF filter_func(p.filter_func, r.res.out)
             THEN Ret(r.res, r.off, <<e>>)
             ELSE Ret(Err, InputStart(src), <<e>>)

\* Filter::go
FilterGo(p, src, off) ==
    LET prev_state == off
        r == Go(p.parser, src, off)
        e == Ev("parser", off, r)
    IN  IF ~IsOk(r) THEN Ret(r.res, r.off, <<e>>)
        ELSE IF filter_func(p.filter_func, r.res.out)
             THEN Ret(r.res, r.off, <<e>>)
             ELSE \* input_ref.rewind(prev_state)
                  Ret(Err, prev_state, <<e>>)

RECURSIVE CollectOptional(_, _, _, _, _, _)
\* second loop of Collect::go : (at_least..at_most.unwrap_or(usize::MAX))
\*   .map(|_| parser.go()).take_while(is_ok), pushing every output.
\* With no ceiling the range has usize::MAX - at_least elements: when an
\* attempt succeeds without moving the cursor, every later attempt starts
\* from the same cursor and succeeds too, and the loop does not return.
CollectOptional(p, src, i, off, ret, log) ==
    LET at_most == RangeEnd(p.range)
    IN  IF at_most.some /\ i >= at_most.val THEN Ret(Ok(ret), off, log)
        ELSE
        LET r == Go(p.parser, src, off)
            l == Append(log, Ev("parser", off, r))
        IN  IF IsErr(r) THEN Ret(Ok(ret), r.off, l)
            ELSE IF ~IsOk(r) THEN Ret(Diverges, r.off, l)
            ELSE IF ~at_most.some /\ r.off = off THEN Ret(Diverges, r.off, l)
            ELSE CollectOptional(p, src, i + 1, r.off,
                                 ContainerPush(p.into, ret, r.res.out), l)

RECURSIVE CollectMandatory(_, _, _, _, _, _)
\* the first loop of Collect::go absorbing a failed mandatory attempt the way
\* the second loop does
CollectMandatory_Absorb(p, src, i, off, ret, log) ==
    IF i >= RangeStart(p.range)
    THEN CollectOptional(p, src, RangeStart(p.range), off, ret, log)
    ELSE LET r == Go(p.parser, src, off)
             l == Append(log, Ev("parser", off, r))
         IN  IF IsErr(r) THEN Ret(Ok(ret), r.off, l)
             ELSE IF ~IsOk(r) THEN Ret(r.res, r.off, l)
             ELSE CollectMandatory(p, src, i + 1, r.off,
                                   ContainerPush(p.into, ret, r.res.out), l)

\* first loop of Collect::go : for _ in 0..at_least { ret.push(parser.go()?) }
CollectMandatory(p, src, i, off, ret, log) ==
    IF i >= RangeStart(p.range)
    THEN CollectOptional(p, src, RangeStart(p.range), off, ret, log)
    ELSE LET r == Go(p.parser, src, off)
             l == Append(log, Ev("parser", off, r))
         IN  IF ~IsOk(r) THEN Ret(r.res, r.off, l)
             ELSE CollectMandatory(p, src, i + 1, r.off,
                                   ContainerPush(p.into, ret, r.res.out), l)

\* Collect::go
CollectGo(p, src, off) ==
    CollectMandatory(p, src, 0, off, ContainerDefault(p.into), <<>>)

\* And::go rewinding to the entry offset when the second parser fails
AndGo_RewindOnFailure(p, src, off) ==
    LET r1 == Go(p.first_parser, src, off)
        e1 == Ev("first_parser", off, r1)
    IN  IF ~IsOk(r1) THEN Ret(r1.res, r1.off, <<e1>>)
        ELSE LET r2 == Go(p.second_parser, src, r1.off)
                 e2 == Ev("second_parser", r1.off, r2)
             IN  IF ~IsOk(r2) THEN Ret(r2.res, off, <<e1, e2>>)
                 ELSE Ret(Ok(<<r1.res.out, r2.res.out>>), r2.off, <<e1, e2>>)

\* And::go
AndGo(p, src, off) ==
    LET r1 == Go(p.first_parser, src, off)
        e1 == Ev("first_parser", off, r1)
    IN  IF ~IsOk(r1) THEN Ret(r1.res, r1.off, <<e1>>)
        ELSE LET r2 == Go(p.second_parser, src, r1.off)
                 e2 == Ev("second_parser", r1.off, r2)
             IN  IF ~IsOk(r2) THEN Ret(r2.res, r2.off, <<e1, e2>>)
                 ELSE Ret(Ok(<<r1.res.out, r2.res.out>>), r2.off, <<e1, e2>>)

\* LeftBind::go
LeftBindGo(p, src, off) ==
    LET r1 == Go(p.first_parser, src, off)
        e1 == Ev("first_parser", off, r1)
    IN  IF ~IsOk(r1) THEN Ret(r1.res, r1.off, <<e1>>)
        ELSE LET r2 == Go(p.second_parser, src, r1.off)
                 e2 == Ev("second_parser", r1.off, r2)
             IN  IF ~IsOk(r2) THEN Ret(r2.res, r2.off, <<e1, e2>>)
                 ELSE Ret(r1.res, r2.off, <<e1, e2>>)

\* RightBind::go
RightBindGo(p, src, off) ==
    LET r1 == Go(p.first_parser, src, off)
        e1 == Ev("first_parser", off, r1)
    IN  IF ~IsOk(r1) THEN Ret(r1.res, r1.off, <<e1>>)
        ELSE LET r2 == Go(p.second_parser, src, r1.off)
             IN  Ret(r2.res, r2.off, <<e1, Ev("second_parser", r1.off, r2)>>)

\* Map::go
MapGo(p, src, off) ==
    LET r == Go(p.parser, src, off)
        e == Ev("parser", off, r)
    IN  IF ~IsOk(r) THEN Ret(r.res, r.off, <<e>>)
        ELSE Ret(Ok(mapper(p.mapper, r.res.out)), r.off, <<e>>)

\* Parser::go, dispatched on the type of the parser value
Go(p, src, off) ==
    CASE p.kind = "Exact"     -> ExactGo(p, src, off)
      [] p.kind = "End"       -> EndGo(p, src, off)
      [] p.kind = "Any"       -> AnyGo(p, src, off)
      [] p.kind = "OneOf"     -> OneOfGo(p, src, off)
      [] p.kind = "Or"        -> OrGo(p, src, off)
      [] p.kind = "Padded"    -> PaddedGo(p, src, off)
      [] p.kind = "Filter"    -> FilterGo(p, src, off)
      [] p.kind = "Collect"   -> CollectGo(p, src, off)
      [] p.kind = "And"       -> AndGo(p, src, off)
      [] p.kind = "LeftBind"  -> LeftBindGo(p, src, off)
      [] p.kind = "RightBind" -> RightBindGo(p, src, off)
      [] p.kind = "Map"       -> MapGo(p, src, off)

\* ------------------------------------------------- parser constructors
exact(seq)                 == [kind |-> "Exact", seq |-> seq]
end                        == [kind |-> "End"]
any                        == [kind |-> "Any"]
one_of(container)          == [kind |-> "OneOf", container |-> container]
or(p1, p2)                 == [kind |-> "Or", first_parser |-> p1, second_parser |-> p2]
padded(p, padded_by)       == [kind |-> "Padded", parser |-> p, padded_by |-> padded_by]
filter(p, f)               == [kind |-> "Filter", parser |-> p, filter_func |-> f]
collect(p, range, c)       == [kind |-> "Collect", parser |-> p, range |-> range, into |-> c]
and(p1, p2)                == [kind |-> "And", first_parser |-> p1, second_parser |-> p2]
left_bind(p1, p2)          == [kind |-> "LeftBind", first_parser |-> p1, second_parser |-> p2]
right_bind(p1, p2)         == [kind |-> "RightBind", first_parser |-> p1, second_parser |-> p2]
map(p, f)                  == [kind |-> "Map", parser |-> p, mapper |-> f]

\* ------------------------------------------- the parsers and inputs tried
SeqsUpTo(S, n) == {<<>>} \cup UNION {[1..k -> S] : k \in 1..n}

Inputs == SeqsUpTo(Tokens, MaxInput)
Lits   == SeqsUpTo(Tokens, MaxLit)
Lits1  == [1..1 -> Tokens]

\* literals with common prefixes, as in the lists of test_one_of
CandLits     == {<<"a">>, <<"a", "a">>, <<"a", "u">>, <<"u">>}
Exacts       == {exact(s) : s \in Lits}
OneOfs       == {one_of(c) : c \in SeqsUpTo(CandLits, MaxCands)}
TokenParsers == {any, filter(any, "is_a")}
Filters      == {filter(any, f) : f \in {"is_a", "is_ascii", "never"}}
                  \cup {filter(q, f) : q \in Exacts, f \in {"nonempty", "never"}}
\* operands of or: literals, nested alternatives, sequences failing late
OrOperands   == Exacts
                  \cup {or(exact(s), exact(t)) : s, t \in Lits1}
                  \cup {left_bind(exact(s), exact(t)) : s, t \in Lits1}
\* parsers used as the second operand or as the repeated parser: one that
\* consumes nothing, one- and two-token literals, any, a filter, end
Operands     == {exact(<<>>), exact(<<"a">>), exact(<<"a", "u">>)}
                  \cup TokenParsers \cup {end}
SeqFirsts    == Exacts \cup {any, end}
Ranges       == {AtLeast(n) : n \in 0..MaxCount}
                  \cup {Between(n, m) : n, m \in 0..MaxCount}
                  \cup {Exactly(n) : n \in 0..MaxCount}
Collects     == {collect(q, r, "Vec") : q \in Operands, r \in Ranges}
                  \cup {collect(q, r, "HashSet") : q \in {any, exact(<<"a">>)}, r \in Ranges}
                  \cup {collect(any, r, "Unit") : r \in Ranges}
                  \cup {collect(filter(any, "is_char"), AtLeast(1), "Vec")}
\* the white_space parser of the tests, over "a"
white_space  == collect(filter(any, "is_a"), AtLeast(0), "Vec")
Pads         == {exact(<<"a">>), exact(<<"a", "u">>), white_space}
Paddeds      == {padded(q, pad) : q \in Exacts \cup {any}, pad \in Pads}
Maps         == {map(q, f) : q \in Exacts, f \in {"len", "dup"}}

\* ------------------------------------------------------------------ state
VARIABLES
    input,    \* InputRef.input : the source
    offset,   \* InputRef.offset : the cursor
    attempt,  \* the last call of go, until the caller takes its result
    ret,      \* what InputRef::next / peek returned, until the caller takes it
    hung      \* an attempt was started that does not return

vars == <<input, offset, attempt, ret, hung>>

parser == attempt.parser   \* the parser value of the last attempt
entry  == attempt.entry    \* the cursor offset at which it started
res    == attempt.res      \* its ParseResult
log    == attempt.log      \* the sub-attempts it made

\* no attempt, the cursor being at offset off
Idle(off) == Attempted(NoParser, off, NoRes, <<>>)

\* a call of InputRef::next / InputRef::peek made with the cursor at offset off
NextCall(off) == Attempted([kind |-> "next"], off, NoRes, <<>>)
PeekCall(off) == Attempted([kind |-> "peek"], off, NoRes, <<>>)

\* char boundaries of the source: the offsets Input::next can produce
Boundaries(src) == {ByteLen(SubSeq(src, 1, i)) : i \in 0..Len(src)}

\* InputRef::new over some source
Init ==
    /\ input \in Inputs
    /\ offset = InputStart(input)
    /\ attempt = Idle(InputStart(input))
    /\ ret = NoRet
    /\ hung = FALSE

\* the caller is between two calls: it holds no value of an earlier call, and
\* no call is still running
Ready == ~hung /\ parser = NoParser /\ ret = NoRet

\* p.go(&mut input_ref) from the current cursor: the record of the call and
\* the offset it leaves in the cursor
Attempt(p) ==
    LET r == Go(p, input, offset)
    IN  [attempt |-> Attempted(p, offset, r.res, r.log),
         offset  |-> r.off,
         hung    |-> (r.res.tag = "Diverges")]

GoExact ==
    /\ Ready
    /\ \E p \in Exacts : LET a == Attempt(p)
        IN attempt' = a.attempt /\ offset' = a.offset /\ hung' = a.hung
    /\ UNCHANGED <<input, ret>>

GoEnd ==
    /\ Ready
    /\ LET a == Attempt(end)
       IN attempt' = a.attempt /\ offset' = a.offset /\ hung' = a.hung
    /\ UNCHANGED <<input, ret>>

GoAny ==
    /\ Ready
    /\ LET a == Attempt(any)
       IN attempt' = a.attempt /\ offset' = a.offset /\ hung' = a.hung
    /\ UNCHANGED <<input, ret>>

GoOneOf ==
    /\ Ready
    /\ \E p \in OneOfs : LET a == Attempt(p)
        IN attempt' = a.attempt /\ offset' = a.offset /\ hung' = a.hung
    /\ UNCHANGED <<input, ret>>

GoOr ==
    /\ Ready
    /\ \E p1 \in OrOperands, p2 \in OrOperands : LET a == Attempt(or(p1, p2))
        IN attempt' = a.attempt /\ offset' = a.offset /\ hung' = a.hung
    /\ UNCHANGED <<input, ret>>

GoPadded ==
    /\ Ready
    /\ \E p \in Paddeds : LET a == Attempt(p)
        IN attempt' = a.attempt /\ offset' = a.offset /\ hung' = a.hung
    /\ UNCHANGED <<input, ret>>

GoFilter ==
    /\ Ready
    /\ \E p \in Filters : LET a == Attempt(p)
        IN attempt' = a.attempt /\ offset' = a.offset /\ hung' = a.hung
    /\ UNCHANGED <<input, ret>>

GoCollect ==
    /\ Ready
    /\ \E p \in Collects : LET a == Attempt(p)
        IN attempt' = a.attempt /\ offset' = a.offset /\ hung' = a.hung
    /\ UNCHANGED <<input, ret>>

GoAnd ==
    /\ Ready
    /\ \E p1 \in SeqFirsts, p2 \in Operands : LET a == Attempt(and(p1, p2))
        IN attempt' = a.attempt /\ offset' = a.offset /\ hung' = a.hung
    /\ UNCHANGED <<input, ret>>

GoLeftBind ==
    /\ Ready
    /\ \E p1 \in SeqFirsts, p2 \in Operands : LET a == Attempt(left_bind(p1, p2))
        IN attempt' = a.attempt /\ offset' = a.offset /\ hung' = a.hung
    /\ UNCHANGED <<input, ret>>

GoRightBind ==
    /\ Ready
    /\ \E p1 \in SeqFirsts, p2 \in Operands : LET a == Attempt(right_bind(p1, p2))
        IN attempt' = a.attempt /\ offset' = a.offset /\ hung' = a.hung
    /\ UNCHANGED <<input, ret>>

GoMap ==
    /\ Ready
    /\ \E p \in Maps : LET a == Attempt(p)
        IN attempt' = a.attempt /\ offset' = a.offset /\ hung' = a.hung
    /\ UNCHANGED <<input, ret>>

\* InputRef::next
Next_ ==
    /\ Ready
    /\ offset' = next(input, offset)[1]
    /\ ret' = <<next(input, offset)[1], next(input, offset)[2]>>
    /\ attempt' = NextCall(offset)
    /\ UNCHANGED <<input, hung>>

\* InputRef::peek
Peek ==
    /\ Ready
    /\ ret' = peek(input, offset)
    /\ attempt' = PeekCall(offset)
    /\ UNCHANGED <<input, offset, hung>>

\* InputRef::rewind, to an offset observed from this source
Rewind ==
    /\ Ready
    /\ \E o \in Boundaries(input) : offset' = o /\ attempt' = Idle(o)
    /\ UNCHANGED <<input, ret, hung>>

\* the caller takes the value that go, next or peek returned
TakeResult ==
    /\ ~hung
    /\ parser # NoParser \/ ret # NoRet
    /\ attempt' = Idle(offset)
    /\ ret' = NoRet
    /\ UNCHANGED <<input, offset, hung>>

Next ==
    \/ GoExact \/ GoEnd \/ GoAny \/ GoOneOf \/ GoOr \/ GoPadded \/ GoFilter
    \/ GoCollect \/ GoAnd \/ GoLeftBind \/ GoRightBind \/ GoMap
    \/ Next_ \/ Peek \/ Rewind \/ TakeResult

Spec == Init /\ [][Next]_vars

\* ---------------------------------------------------- notions of the claims
\* the tokens from byte offset off to the end of the source
Rest(src, off) == InputSlice(src, off, ByteLen(src))

\* s is a prefix of t, token for token
StartsWith(t, s) == Len(s) <= Len(t) /\ SubSeq(t, 1, Len(s)) = s

\* the longest common prefix of two token sequences
CommonPrefix(s, t) ==
    LET n == CHOOSE k \in 0..Len(s) :
                 /\ k <= Len(t)
                 /\ SubSeq(s, 1, k) = SubSeq(t, 1, k)
                 /\ \A j \in (k + 1)..Len(s) :
                        j > Len(t) \/ SubSeq(s, 1, j) # SubSeq(t, 1, j)
    IN  SubSeq(s, 1, n)

\* every logged sub-attempt is what its sub-parser yields from where it began
LogFaithful(sub(_)) ==
    \A i \in DOMAIN log :
        LET r == Go(sub(log[i].who), input, log[i].from)
        IN  log[i].tag = r.res.tag /\ log[i].to = r.off

\* ----------------------------------------------------------------- claims

\* C1: Alternative independence.  When p1 fails (wherever it left the cursor),
\* p1.or(p2) yields the result and the final offset that p2 alone yields from
\* the entry offset; when p1 succeeds the result and offset are p1's and p2 is
\* not attempted.
C1_AlternativeIndependence ==
    parser.kind = "Or" =>
        LET r1 == Go(parser.first_parser, input, entry)
            r2 == Go(parser.second_parser, input, entry)
        IN  /\ IsOk(r1) =>
                /\ res = r1.res
                /\ offset = r1.off
                /\ \A i \in DOMAIN log : log[i].who # "second_parser"
            /\ IsErr(r1) =>
                /\ res.tag = r2.res.tag
                /\ res = r2.res
                /\ offset = r2.off

\* C1 witness: the first branch failed after consuming tokens and the second
\* branch succeeded from the entry offset.
C1_Witness ==
    /\ parser.kind = "Or"
    /\ Len(log) = 2
    /\ log[1].tag = "Err" /\ log[1].to > entry
    /\ log[2].from = entry
    /\ res.tag = "Ok" /\ offset > entry

\* C2: when the tokens from the entry offset do not start with S, exact(S)
\* fails with SyntaxError and leaves the cursor at the entry offset plus the
\* byte length of the longest common prefix of S and the remaining input.
C2_ExactFailure ==
    (parser.kind = "Exact" /\ ~StartsWith(Rest(input, entry), parser.seq)) =>
        /\ res = Err
        /\ offset = entry + ByteLen(CommonPrefix(parser.seq, Rest(input, entry)))

\* C2 witness: a literal that failed after a non-empty partial match.
C2_Witness ==
    /\ parser.kind = "Exact"
    /\ res.tag = "Err"
    /\ offset > entry
    /\ offset < ByteLen(input)

\* C3: when the tokens from the entry offset start with S, exact(S) succeeds,
\* returns the slice from the entry offset to the new offset, which equals S
\* token for token, and the cursor advances by the byte length of S.
C3_ExactSuccess ==
    (parser.kind = "Exact" /\ StartsWith(Rest(input, entry), parser.seq)) =>
        /\ res.tag = "Ok"
        /\ res.out = parser.seq
        /\ res.out = InputSlice(input, entry, offset)
        /\ offset = entry + ByteLen(parser.seq)
        /\ (input = parser.seq /\ entry = InputStart(input)) => res.out = input

\* C3 witness: a two-byte-token literal matched in the middle of the source.
C3_Witness ==
    /\ parser.kind = "Exact"
    /\ res.tag = "Ok"
    /\ entry > 0
    /\ Len(parser.seq) = 2
    /\ offset = entry + 3

\* the index of the first listed candidate that the remaining input starts
\* with, 0 if there is none
FirstMatch(container, rest) ==
    LET ok == {i \in DOMAIN container : StartsWith(rest, container[i])}
    IN  IF ok = {} THEN 0 ELSE CHOOSE i \in ok : \A j \in ok : i <= j

\* C4: one_of tries the candidates in listed order, each from the entry
\* offset; the result is the slice of the first listed candidate that matches,
\* with the cursor just past it; it fails only if every candidate fails, and
\* then the cursor is at the entry offset.
C4_OneOf ==
    parser.kind = "OneOf" =>
        LET rest == Rest(input, entry)
            k == FirstMatch(parser.container, rest)
        IN  /\ \A i \in DOMAIN log : log[i].from = entry
            /\ k = 0 =>
                /\ res = Err
                /\ offset = entry
                /\ Len(log) = Len(parser.container)
            /\ k > 0 =>
                /\ res.tag = "Ok"
                /\ res.out = parser.container[k]
                /\ offset = entry + ByteLen(parser.container[k])
                /\ Len(log) = k

\* C4 witness: the first candidate failed after a partial match and the
\* second, listed before nothing longer, matched from the entry offset.
C4_Witness ==
    /\ parser.kind = "OneOf"
    /\ Len(log) = 2
    /\ log[1].tag = "Err" /\ log[1].to > entry
    /\ res.tag = "Ok" /\ offset > entry

\* the sub-parser a logged attempt of the last parser was made on
SubParser(who) ==
    CASE who = "parser"        -> parser.parser
      [] who = "first_parser"  -> parser.first_parser
      [] who = "second_parser" -> parser.second_parser
      [] who = "padded_by"     -> parser.padded_by

\* C5: when one of the first `min` inner attempts fails, the combinator fails
\* with SyntaxError, makes no further inner attempt, and leaves the cursor
\* where the failing attempt left it; the attempts run back to back from the
\* entry offset.
C5_MandatoryFailure ==
    parser.kind = "Collect" =>
        /\ LogFaithful(SubParser)
        /\ \A i \in DOMAIN log :
               log[i].from = (IF i = 1 THEN entry ELSE log[i - 1].to)
        /\ \A i \in DOMAIN log :
               (i <= RangeStart(parser.range) /\ log[i].tag = "Err") =>
                   /\ res = Err
                   /\ Len(log) = i
                   /\ offset = log[i].to

\* C5 witness: a mandatory attempt failed after an earlier one had consumed
\* tokens, and the cursor is past the entry offset.
C5_Witness ==
    /\ parser.kind = "Collect"
    /\ RangeStart(parser.range) = 2
    /\ Len(log) = 2
    /\ log[1].tag = "Ok" /\ log[2].tag = "Err"
    /\ res = Err
    /\ offset > entry

\* the number of inner attempts of the last attempt that succeeded
Collected == Cardinality({i \in DOMAIN log : log[i].tag = "Ok"})

\* C6: for every range built with at_least / at_most / exactly, a successful
\* bounded-repeat made exactly `min` mandatory attempts and at most max - min
\* further ones, holds k outputs with min <= k and, with a ceiling, k <= max,
\* makes no attempt beyond the ceiling, and absorbs the first failing optional
\* attempt, which ends the loop.
C6_RepeatBounds ==
    (parser.kind = "Collect" /\ res.tag = "Ok") =>
        LET min == RangeStart(parser.range)
            max == RangeEnd(parser.range)
        IN  /\ Len(log) >= min
            /\ \A i \in 1..min : log[i].tag = "Ok"
            /\ min <= Collected
            /\ max.some => Collected <= max.val
            /\ max.some => Len(log) <= max.val
            /\ \A i \in DOMAIN log : log[i].tag = "Err" => (i > min /\ i = Len(log))
            /\ parser.into = "Vec" => Len(res.out) = Collected

\* the offset reached by the last inner attempt that succeeded, the entry
\* offset if none did
LastCollectedOffset ==
    LET ok == {i \in DOMAIN log : log[i].tag = "Ok"}
    IN  IF ok = {} THEN entry
        ELSE log[CHOOSE i \in ok : \A j \in ok : j <= i].to

\* C7: a successful bounded-repeat leaves the cursor at the offset reached by
\* the last successful inner attempt (the entry offset if none succeeded), for
\* every inner parser.
C7_CursorAfterRepeat ==
    (parser.kind = "Collect" /\ res.tag = "Ok") => offset = LastCollectedOffset

\* C8: filter returns the inner output unchanged, cursor where the inner parser
\* left it, when the predicate holds; fails with the cursor rewound to the
\* entry offset when the predicate is false; and when the inner parser fails,
\* fails with the cursor where the inner parser left it.
C8_Filter ==
    parser.kind = "Filter" =>
        LET r == Go(parser.parser, input, entry)
        IN  /\ (IsOk(r) /\ filter_func(parser.filter_func, r.res.out)) =>
                (res = r.res /\ offset = r.off)
            /\ (IsOk(r) /\ ~filter_func(parser.filter_func, r.res.out)) =>
                (res = Err /\ offset = entry)
            /\ IsErr(r) => (res = Err /\ offset = r.off)

\* C8 witness: the inner parser consumed tokens, the predicate rejected its
\* output, and the cursor is back at the entry offset.
C8_Witness ==
    /\ parser.kind = "Filter"
    /\ Len(log) = 1 /\ log[1].tag = "Ok" /\ log[1].to > entry
    /\ res = Err
    /\ offset = entry

\* C9: and / left_bind / right_bind attempt the second parser only if the
\* first succeeded, from the offset the first left; a failing sub-parser makes
\* the combinator fail with the cursor where that sub-parser left it; on
\* success the output is (o1, o2), o1, or o2, with the cursor where the second
\* parser left it.
C9_Sequencing ==
    parser.kind \in {"And", "LeftBind", "RightBind"} =>
        LET r1 == Go(parser.first_parser, input, entry)
            r2 == Go(parser.second_parser, input, r1.off)
        IN  /\ IsErr(r1) =>
                /\ res = Err /\ offset = r1.off
                /\ \A i \in DOMAIN log : log[i].who # "second_parser"
            /\ IsOk(r1) =>
                /\ Len(log) = 2
                /\ log[2].who = "second_parser" /\ log[2].from = r1.off
            /\ (IsOk(r1) /\ IsErr(r2)) => (res = Err /\ offset = r2.off)
            /\ (IsOk(r1) /\ IsOk(r2)) =>
                /\ res.tag = "Ok"
                /\ offset = r2.off
                /\ parser.kind = "And" => res.out = <<r1.res.out, r2.res.out>>
                /\ parser.kind = "LeftBind" => res.out = r1.res.out
                /\ parser.kind = "RightBind" => res.out = r2.res.out

\* C9 witness: the first parser consumed tokens, the second failed further
\* on, and the cursor is where the second one stopped.
C9_Witness ==
    /\ parser.kind = "And"
    /\ Len(log) = 2
    /\ log[1].tag = "Ok" /\ log[1].to > entry
    /\ log[2].tag = "Err" /\ log[2].to > log[2].from
    /\ res = Err
    /\ offset = log[2].to

\* C10: padded attempts the pad once before self and, only if self succeeded,
\* once after it; the outcome is self's output or self's failure whatever the
\* pad attempts yield; when self fails the trailing pad is not run and the
\* cursor stays where self left it.
C10_Padded ==
    parser.kind = "Padded" =>
        LET pad1 == Go(parser.padded_by, input, entry)
            r    == Go(parser.parser, input, pad1.off)
            pad2 == Go(parser.padded_by, input, r.off)
        IN  /\ Len(log) >= 2
            /\ log[1].who = "padded_by" /\ log[1].from = entry
            /\ log[2].who = "parser" /\ log[2].from = pad1.off
            /\ IsErr(r) =>
                /\ res = Err /\ offset = r.off
                /\ Len(log) = 2
            /\ IsOk(r) =>
                /\ res = r.res /\ offset = pad2.off
                /\ Len(log) = 3
                /\ log[3].who = "padded_by" /\ log[3].from = r.off

\* C10 witness: the leading pad failed after consuming tokens, self then
\* succeeded, and the trailing pad failed as well.
C10_Witness ==
    /\ parser.kind = "Padded"
    /\ Len(log) = 3
    /\ log[1].tag = "Err" /\ log[1].to > entry
    /\ log[3].tag = "Err"
    /\ res.tag = "Ok"

\* C11: wherever a token is available any() succeeds, returns exactly that
\* token and advances the cursor by exactly that one token; at the end of the
\* input it fails with SyntaxError and the offset is unchanged.
C11_Any ==
    parser.kind = "Any" =>
        LET rest == Rest(input, entry)
        IN  IF rest # <<>>
            THEN /\ res.tag = "Ok" /\ res.out = rest[1]
                 /\ offset = entry + len_utf8(rest[1])
                 /\ Len(Rest(input, offset)) = Len(rest) - 1
            ELSE res = Err /\ offset = entry

\* C11 witness: any() took a two-byte token that is not the first of the
\* source.
C11_Witness ==
    /\ parser.kind = "Any"
    /\ entry > 0
    /\ res.tag = "Ok" /\ res.out = "u"
    /\ offset = entry + 2

\* C12: end() succeeds exactly when no token is left at the entry offset, and
\* whether it succeeds or fails the offset afterwards is the entry offset.
C12_End ==
    parser.kind = "End" =>
        /\ res.tag \in {"Ok", "Err"}
        /\ res.tag = "Ok" <=> Rest(input, entry) = <<>>
        /\ offset = entry

\* C12 witness: end() failed in the middle of the source, tokens on both sides
\* of the cursor.
C12_Witness ==
    /\ parser.kind = "End"
    /\ res.tag = "Err"
    /\ entry > 0
    /\ offset < ByteLen(input)

\* the longest run of tokens at the front of rest that satisfy predicate f
Accepted(f, rest) ==
    LET n == CHOOSE k \in 0..Len(rest) :
                 /\ \A j \in 1..k : filter_func(f, rest[j])
                 /\ k = Len(rest) \/ ~filter_func(f, rest[k + 1])
    IN  SubSeq(rest, 1, n)

\* any().filter(pred).repeated().at_least(1) collected into a Vec
IsFilteredRepetition(p) ==
    /\ p.kind = "Collect"
    /\ p.into = "Vec"
    /\ p.range.kind = "AtLeast" /\ p.range.a = 1
    /\ p.parser.kind = "Filter"
    /\ p.parser.parser.kind = "Any"

\* C13: any().filter(pred).repeated().at_least(1) collected into a Vec, over
\* k >= 1 tokens satisfying pred followed by a token that fails it or by the
\* end of the input, succeeds with exactly those k tokens in input order and
\* leaves the cursor just after them (the rejected token is not consumed);
\* when there is no such token at the entry offset it fails and the cursor is
\* at the entry offset.
C13_FilteredRepetition ==
    IsFilteredRepetition(parser) =>
        LET run == Accepted(parser.parser.filter_func, Rest(input, entry))
        IN  IF run # <<>>
            THEN /\ res.tag = "Ok" /\ res.out = run
                 /\ offset = entry + ByteLen(run)
            ELSE res = Err /\ offset = entry

\* C13 witness: two tokens were accepted and the token that was rejected is
\* still ahead of the cursor.
C13_Witness ==
    /\ IsFilteredRepetition(parser)
    /\ res.tag = "Ok"
    /\ Len(res.out) = 2
    /\ Len(log) = 3 /\ log[3].tag = "Err"
    /\ Rest(input, offset) # <<>>

\* the last call was a call of go on some parser (not next or peek)
IsGo == parser.kind \notin {"none", "next", "peek"}

\* C14: every successful attempt leaves the offset at or after the entry
\* offset, and a success that consumed no token (end(), a repetition that
\* matched nothing: none of its inner attempts succeeded) leaves the offset
\* exactly equal to the entry offset.
C14_NonRetreat ==
    (IsGo /\ res.tag = "Ok") =>
        /\ offset >= entry
        /\ (parser.kind = "End" \/ (parser.kind = "Collect" /\ Collected = 0))
               => offset = entry

\* C16: every attempt of every parser over a finite input ends in a definite
\* success or a SyntaxError; in particular a bounded-repeat without a ceiling
\* returns for every inner parser, also one that succeeds without consuming a
\* token.
C16_Termination ==
    /\ ~hung
    /\ IsGo => res.tag \in {"Ok", "Err"}

\* what the source has to hand out at offset off: the token there and the
\* offset just after it, or no token and off itself at the end of the source
ExpectedNext(src, off) ==
    LET rest == Rest(src, off)
    IN  IF rest = <<>> THEN <<off, None>>
        ELSE <<off + len_utf8(rest[1]), rest[1]>>

\* C17: at the end of the source next returns no token and leaves the offset
\* unchanged, so after any number of advances and peeks the offset is never
\* past the end; next returns the token at the cursor with the offset after
\* it and moves the cursor there; peek returns the same (next offset, token)
\* pair and never changes the offset.
C17_EndOfStream ==
    /\ offset <= ByteLen(input)
    /\ parser.kind = "next" =>
           /\ ret = ExpectedNext(input, entry)
           /\ offset = ret[1]
           /\ entry = ByteLen(input) => (ret[2] = None /\ offset = entry)
    /\ parser.kind = "peek" =>
           /\ ret = ExpectedNext(input, entry)
           /\ offset = entry

\* C17 witness: next was called with the cursor at the end of a non-empty
\* source and returned no token.
C17_Witness ==
    /\ parser.kind = "next"
    /\ input # <<>>
    /\ entry = ByteLen(input)
    /\ ret[2] = None
    /\ offset = entry

\* C18: every attempt, successful or failed, leaves the offset between its
\* entry offset and the end of the input, and so does every attempt on a
\* direct sub-parser; the rewinds of or, one_of and filter go to the offset
\* the combinator was entered at.
C18_CursorRange ==
    IsGo =>
        /\ entry <= offset /\ offset <= ByteLen(input)
        /\ \A i \in DOMAIN log :
               /\ entry <= log[i].from
               /\ log[i].from <= log[i].to
               /\ log[i].to <= ByteLen(input)
        /\ parser.kind \in {"Or", "OneOf"} =>
               \A i \in DOMAIN log : log[i].from = entry
        /\ (parser.kind = "Filter" /\ res.tag = "Err" /\ log[1].tag = "Ok") =>
               offset = entry

\* C18 witness: away from the start of the source a filter rejected a token
\* its inner parser had consumed, and the cursor is back at the entry offset.
C18_Witness ==
    /\ parser.kind = "Filter"
    /\ entry > 0
    /\ res.tag = "Err"
    /\ log[1].tag = "Ok" /\ log[1].to > entry
    /\ offset = entry

====
